---- MODULE Spec2Model ----
(***************************************************************************)
(* Model of src/modules/bluetooth/backend-droid-native.c: the HSP audio    *)
(* gateway backend.  One backend object, at most one RFCOMM session        *)
(* (struct transport_rfcomm), the oFono call registry (call_paths,         *)
(* active_calls, held_calls, incoming_call_path), the list of pending      *)
(* enumeration requests and the ring timer.  Every action is one callback  *)
(* of the single-threaded main loop.                                       *)
(***************************************************************************)
EXTENDS Integers, Sequences, FiniteSets, TLC

(* ------------------------------ bounds -------------------------------- *)
\* pending enumeration requests outstanding at once
MaxPending == 2
\* struct entries in one GetCalls reply
MaxReplyCalls == 2
\* AT lines delivered by one read() of the control channel
MaxLines == 2

(* --------------------------- values and inputs ------------------------ *)
\* C strings are tuples of characters; the NULL pointer is the empty tuple
NoPath == << >>

\* /org/ofono/modem0/voicecall01
OfonoCallPath ==
    << "/", "o", "r", "g", "/", "o", "f", "o", "n", "o", "/", "m", "o", "d",
       "e", "m", "0", "/", "v", "o", "i", "c", "e", "c", "a", "l", "l", "0", "1" >>

\* /badpath
BadPath == << "/", "b", "a", "d", "p", "a", "t", "h" >>

\* call object paths with more elements than two, and with one
ExamplePaths == { OfonoCallPath, BadPath }

\* the call object paths the bus names: one below a modem, one without a
\* second separator
CallPaths == { <<"/", "m", "/", "a">>, <<"/", "x">> }

ModemPaths == { <<"/", "m">>, <<"/", "n">> }

\* call_state NULL: the property dictionary carried no "State" entry
NoState == "<none>"

\* values of the State entry of CallAdded / GetCalls property dictionaries
ObserveStates == {"incoming", "waiting", "held", NoState}

\* the State entries of the structs of a GetCalls reply: one value for each
\* branch of voicecall_parse_call
ReplyStates == {"incoming", NoState}

\* values of the State property in PropertyChanged
TransitionStates == {"active", "held", "disconnected", "alerting"}

\* integers the headset may put after AT+VGS= / AT+VGM=
ATGains == {7, 16}

\* values the audio path passes to the gain setters
SetterGains == {7}

\* no AT+VGS / AT+VGM line among the lines of a read
NoGain == -1

\* uint16_t speaker_gain / microphone_gain
UInt16 == 65536

\* the value bluez5_sco_acquire_cb stores through imtu and omtu
ScoMtu == 48

\* what the caller's size variable holds when the callback stored nothing
NoMtu == 0

\* the descriptor socket() returned
ScoFd == 3

\* the return value of a failed bluez5_sco_acquire_cb
ScoError == -1

\* what connect() gave: 0, or -1 with one of these errno values
ConnectResults == {"0", "EAGAIN", "EINPROGRESS", "ECONNREFUSED", "EHOSTDOWN"}

\* the outcomes of socket(), bind() and connect() in one call; "-" stands
\* for a system call that is not reached
ScoSyscalls ==
    { << "fail", "-", "-" >>, << "ok", "fail", "-" >> }
        \cup { << "ok", "ok", c >> : c \in ConnectResults }

RangeOf(s) == { s[i] : i \in 1..Len(s) }

(* -------------------------- pa_hashmap (ordered) ---------------------- *)
\* A pa_hashmap whose value is its key: the keys in insertion order.
pa_hashmap_put(h, k) == IF k \in RangeOf(h) THEN h ELSE Append(h, k)

pa_hashmap_remove(h, k) == SelectSeq(h, LAMBDA x : x # k)

pa_hashmap_size(h) == Len(h)

pa_hashmap_last(h) == IF Len(h) = 0 THEN NoPath ELSE h[Len(h)]

pa_hashmap_has(h, k) == k \in RangeOf(h)

(* ------------------------------- state -------------------------------- *)
VARIABLES
    trfc,                \* backend->trfc # NULL
    rfcomm_io,           \* trfc->rfcomm_io registered with the main loop
    ring_time_event,     \* trfc->ring_time_event armed
    speaker_gain,        \* t->speaker_gain
    microphone_gain,     \* t->microphone_gain
    call_paths,          \* backend->call_paths
    active_calls,        \* backend->active_calls
    held_calls,          \* backend->held_calls
    incoming_call_path,  \* backend->incoming_call_path
    pending,             \* backend->pending, head first
    aborted,             \* a pa_assert failed: the process is gone
    out,                 \* lines written to rfcomm_fd by the last callback
    sent,                \* bus method calls sent by the last callback
    actions,             \* telephony actions decided by the last button press
    op,                  \* the last callback and its input
    pre,                 \* what the last callback found
    sco                  \* the last audio-bearer callback: its input and effect

vars == << trfc, rfcomm_io, ring_time_event, speaker_gain, microphone_gain,
           call_paths, active_calls, held_calls, incoming_call_path, pending,
           aborted, out, sent, actions, op, pre, sco >>

\* the fields the registry and ring helpers work on, as one value
Backend ==
    [ trfc |-> trfc, ring_time_event |-> ring_time_event,
      call_paths |-> call_paths, active_calls |-> active_calls,
      held_calls |-> held_calls, incoming_call_path |-> incoming_call_path,
      out |-> << >>, aborted |-> FALSE ]

\* the last callback: its name, the object path and string it carried, a
\* count and a flag of its input, the AT commands it decoded, the integers
\* of the last AT+VGS and the last AT+VGM among the lines it read, and the
\* object paths listed by a reply
Op(name, path, arg, n, flag) ==
    [ name |-> name, path |-> path, arg |-> arg, n |-> n, flag |-> flag,
      cmds |-> << >>, vgs |-> NoGain, vgm |-> NoGain, paths |-> << >> ]

Pre ==
    [ trfc |-> trfc, ring |-> ring_time_event, incoming |-> incoming_call_path ]

(* --------------------------- ring indication -------------------------- *)
\* rfcomm_ring: write "\r\nRING\r\n" to trfc->rfcomm_fd
rfcomm_ring(b) == [b EXCEPT !.out = Append(@, "RING")]

\* rfcomm_ring_start without the test of ring_time_event
rfcomm_ring_start_unguarded(b) ==
    IF ~b.trfc THEN [b EXCEPT !.aborted = TRUE]
    ELSE [rfcomm_ring(b) EXCEPT !.ring_time_event = TRUE]

\* rfcomm_ring_start: pa_assert(trfc), then ring and arm unless armed
rfcomm_ring_start(b) ==
    IF ~b.trfc THEN [b EXCEPT !.aborted = TRUE]
    ELSE IF ~b.ring_time_event
         THEN [rfcomm_ring(b) EXCEPT !.ring_time_event = TRUE]
         ELSE b

\* rfcomm_ring_stop without the test of ring_time_event: time_free(NULL)
rfcomm_ring_stop_unguarded(b) ==
    IF b.ring_time_event THEN [b EXCEPT !.ring_time_event = FALSE]
    ELSE [b EXCEPT !.aborted = TRUE]

\* rfcomm_ring_stop: free the timer if armed
rfcomm_ring_stop(b) ==
    IF b.ring_time_event THEN [b EXCEPT !.ring_time_event = FALSE] ELSE b

(* ----------------------------- call registry -------------------------- *)
\* voicecall_parse_call calling rfcomm_ring_start for every incoming or
\* waiting call, whatever the size of call_paths
voicecall_parse_call_rings_always(b, path, call_state) ==
    LET b1 == [b EXCEPT !.call_paths = pa_hashmap_put(@, path)]
    IN  IF call_state \in {"incoming", "waiting"}
        THEN rfcomm_ring_start([b1 EXCEPT !.incoming_call_path = path])
        ELSE [b1 EXCEPT !.active_calls =
                            pa_hashmap_put(pa_hashmap_remove(@, path), path)]

\* voicecall_parse_call: one (path, properties) pair of CallAdded / GetCalls
voicecall_parse_call(b, path, call_state) ==
    LET b1 == [b EXCEPT !.call_paths = pa_hashmap_put(@, path)]
    IN  IF call_state \in {"incoming", "waiting"}
        THEN LET b2 == [b1 EXCEPT !.incoming_call_path = path]
             IN  IF pa_hashmap_size(b2.call_paths) = 1
                 THEN rfcomm_ring_start(b2)
                 ELSE b2
        ELSE [b1 EXCEPT !.active_calls =
                            pa_hashmap_put(pa_hashmap_remove(@, path), path)]

\* voicecall_clear_calls without the reset of incoming_call_path
voicecall_clear_calls_keeps_incoming(b) ==
    [b EXCEPT !.active_calls = << >>, !.held_calls = << >>,
              !.call_paths = << >>]

\* voicecall_clear_calls
voicecall_clear_calls(b) ==
    [b EXCEPT !.active_calls = << >>, !.held_calls = << >>,
              !.call_paths = << >>, !.incoming_call_path = NoPath]

\* property_changed_state with the held_calls removal of the "disconnected"
\* branch left out
property_changed_state_keeps_held(b, path, state) ==
    LET b1 ==
          IF state = "active" THEN
              LET known == pa_hashmap_has(b.call_paths, path)
                  a == pa_hashmap_remove(b.active_calls, path)
              IN  [b EXCEPT
                     !.incoming_call_path = IF @ = path THEN NoPath ELSE @,
                     !.held_calls = pa_hashmap_remove(@, path),
                     !.active_calls = IF known THEN pa_hashmap_put(a, path) ELSE a]
          ELSE IF state = "held" THEN
              LET known == pa_hashmap_has(b.call_paths, path)
              IN  [b EXCEPT
                     !.active_calls = pa_hashmap_remove(@, path),
                     !.held_calls = IF known THEN pa_hashmap_put(@, path) ELSE @]
          ELSE IF state = "disconnected" THEN
              [b EXCEPT
                 !.incoming_call_path = IF @ = path THEN NoPath ELSE @,
                 !.active_calls = pa_hashmap_remove(@, path),
                 !.call_paths = pa_hashmap_remove(@, path)]
          ELSE b
    IN  IF b1.trfc THEN rfcomm_ring_stop(b1) ELSE b1

\* property_changed_state with rfcomm_ring_stop moved into the three
\* branches that know the state
property_changed_state_stops_known(b, path, state) ==
    LET b1 ==
          IF state = "active" THEN
              LET known == pa_hashmap_has(b.call_paths, path)
                  a == pa_hashmap_remove(b.active_calls, path)
              IN  [b EXCEPT
                     !.incoming_call_path = IF @ = path THEN NoPath ELSE @,
                     !.held_calls = pa_hashmap_remove(@, path),
                     !.active_calls = IF known THEN pa_hashmap_put(a, path) ELSE a]
          ELSE IF state = "held" THEN
              LET known == pa_hashmap_has(b.call_paths, path)
              IN  [b EXCEPT
                     !.active_calls = pa_hashmap_remove(@, path),
                     !.held_calls = IF known THEN pa_hashmap_put(@, path) ELSE @]
          ELSE IF state = "disconnected" THEN
              [b EXCEPT
                 !.incoming_call_path = IF @ = path THEN NoPath ELSE @,
                 !.active_calls = pa_hashmap_remove(@, path),
                 !.held_calls = pa_hashmap_remove(@, path),
                 !.call_paths = pa_hashmap_remove(@, path)]
          ELSE b
    IN  IF b1.trfc /\ state \in {"active", "held", "disconnected"}
        THEN rfcomm_ring_stop(b1)
        ELSE b1

\* the State branch of PropertyChanged without the lookup in call_paths
property_changed_state_adds_unknown(b, path, state) ==
    LET b1 ==
          IF state = "active" THEN
              [b EXCEPT
                 !.incoming_call_path = IF @ = path THEN NoPath ELSE @,
                 !.held_calls = pa_hashmap_remove(@, path),
                 !.active_calls = pa_hashmap_put(pa_hashmap_remove(@, path), path)]
          ELSE IF state = "held" THEN
              [b EXCEPT
                 !.active_calls = pa_hashmap_remove(@, path),
                 !.held_calls = pa_hashmap_put(@, path)]
          ELSE IF state = "disconnected" THEN
              [b EXCEPT
                 !.incoming_call_path = IF @ = path THEN NoPath ELSE @,
                 !.active_calls = pa_hashmap_remove(@, path),
                 !.held_calls = pa_hashmap_remove(@, path),
                 !.call_paths = pa_hashmap_remove(@, path)]
          ELSE b
    IN  IF b1.trfc THEN rfcomm_ring_stop(b1) ELSE b1

\* filter_cb, PropertyChanged branch, property "State"
property_changed_state(b, path, state) ==
    LET b1 ==
          IF state = "active" THEN
              LET known == pa_hashmap_has(b.call_paths, path)
                  a == pa_hashmap_remove(b.active_calls, path)
              IN  [b EXCEPT
                     !.incoming_call_path = IF @ = path THEN NoPath ELSE @,
                     !.held_calls = pa_hashmap_remove(@, path),
                     !.active_calls = IF known THEN pa_hashmap_put(a, path) ELSE a]
          ELSE IF state = "held" THEN
              LET known == pa_hashmap_has(b.call_paths, path)
              IN  [b EXCEPT
                     !.active_calls = pa_hashmap_remove(@, path),
                     !.held_calls = IF known THEN pa_hashmap_put(@, path) ELSE @]
          ELSE IF state = "disconnected" THEN
              [b EXCEPT
                 !.incoming_call_path = IF @ = path THEN NoPath ELSE @,
                 !.active_calls = pa_hashmap_remove(@, path),
                 !.held_calls = pa_hashmap_remove(@, path),
                 !.call_paths = pa_hashmap_remove(@, path)]
          ELSE b
    IN  IF b1.trfc THEN rfcomm_ring_stop(b1) ELSE b1

(* ------------------------- telephony actions -------------------------- *)
Msg(path, member) == [ path |-> path, member |-> member ]

Act(act, path) == [ act |-> act, path |-> path ]

\* index of the first "/" of s at or after position i, 0 if there is none
RECURSIVE strstr_slash(_, _)
strstr_slash(s, i) ==
    IF i > Len(s) THEN 0
    ELSE IF s[i] = "/" THEN i
    ELSE strstr_slash(s, i + 1)

\* path_get_modem: the prefix before the second separator, NULL if none
path_get_modem(path) ==
    IF path = NoPath \/ Len(path) < 2 THEN NoPath
    ELSE LET d == strstr_slash(path, 2)
         IN  IF d # 0 THEN SubSeq(path, 1, d - 1) ELSE NoPath

\* voicecall_send
voicecall_send(path, action) == << Msg(path, action) >>

\* voicecall_hold_and_answer
voicecall_hold_and_answer(path) ==
    LET modem == path_get_modem(path)
    IN  IF modem # NoPath THEN << Msg(modem, "HoldAndAnswer") >> ELSE << >>

\* voicecall_swap_calls
voicecall_swap_calls(path) ==
    LET modem == path_get_modem(path)
    IN  IF modem # NoPath THEN << Msg(modem, "SwapCalls") >> ELSE << >>

\* rfcomm_handle_button taking the oldest call of a set instead of the newest
rfcomm_handle_button_takes_first(b) ==
    IF b.incoming_call_path # NoPath THEN
        IF pa_hashmap_size(b.call_paths) = 1
        THEN << Act("Answer", b.incoming_call_path) >>
        ELSE << Act("HoldAndAnswer", b.incoming_call_path) >>
    ELSE IF pa_hashmap_size(b.active_calls) # 0 THEN
        << Act("Hangup", Head(b.active_calls)) >>
        \o (IF pa_hashmap_size(b.held_calls) # 0
            THEN << Act("SwapCalls", Head(b.held_calls)) >>
            ELSE << >>)
    ELSE IF pa_hashmap_size(b.held_calls) # 0 THEN
        << Act("Hangup", Head(b.held_calls)) >>
    ELSE << >>

\* rfcomm_handle_button: the helpers called, in order, with their call path
rfcomm_handle_button(b) ==
    IF b.incoming_call_path # NoPath THEN
        IF pa_hashmap_size(b.call_paths) = 1
        THEN << Act("Answer", b.incoming_call_path) >>
        ELSE << Act("HoldAndAnswer", b.incoming_call_path) >>
    ELSE IF pa_hashmap_size(b.active_calls) # 0 THEN
        << Act("Hangup", pa_hashmap_last(b.active_calls)) >>
        \o (IF pa_hashmap_size(b.held_calls) # 0
            THEN << Act("SwapCalls", pa_hashmap_last(b.held_calls)) >>
            ELSE << >>)
    ELSE IF pa_hashmap_size(b.held_calls) # 0 THEN
        << Act("Hangup", pa_hashmap_last(b.held_calls)) >>
    ELSE << >>

\* the bus messages the helper called for one action puts on the bus
ActionMessages(a) ==
    IF a.act = "HoldAndAnswer" THEN voicecall_hold_and_answer(a.path)
    ELSE IF a.act = "SwapCalls" THEN voicecall_swap_calls(a.path)
    ELSE voicecall_send(a.path, a.act)

RECURSIVE MessagesOf(_)
MessagesOf(as) ==
    IF as = << >> THEN << >>
    ELSE ActionMessages(Head(as)) \o MessagesOf(Tail(as))

(* ------------------------- enumeration requests ----------------------- *)
\* a pa_dbus_pending: the notify function of its call; call_data is NULL
Req(kind) == [ kind |-> kind ]

\* send_and_add_to_pending: PA_LLIST_PREPEND
send_and_add_to_pending(p, r) == << r >> \o p

\* PA_LLIST_REMOVE taking the head of the list instead of the request
llist_remove_head(p, i) == Tail(p)

\* PA_LLIST_REMOVE of the request at position i
llist_remove(p, i) == SubSeq(p, 1, i - 1) \o SubSeq(p, i + 1, Len(p))

\* voicecall_get_calls for each struct of a GetModems reply, in order
RECURSIVE voicecall_get_calls(_, _)
voicecall_get_calls(p, modems) ==
    IF modems = << >> THEN p
    ELSE voicecall_get_calls(
             send_and_add_to_pending(p, Req("GetCalls")),
             Tail(modems))

\* the while loop of get_calls_reply; a failed assertion ends the process
RECURSIVE parse_calls(_, _)
parse_calls(b, entries) ==
    IF entries = << >> \/ b.aborted THEN b
    ELSE parse_calls(voicecall_parse_call(b, Head(entries).path, Head(entries).state),
                     Tail(entries))

SeqsUpTo(S, n) == UNION { [1..k -> S] : k \in 0..n }

\* bodies of a GetCalls reply with signature a(oa{sv}): each call once
CallsReplies ==
    { r \in SeqsUpTo([path : CallPaths, state : ReplyStates], MaxReplyCalls) :
        \A i, j \in 1..Len(r) : i # j => r[i].path # r[j].path }

\* bodies of a GetModems reply with signature a(oa{sv})
ModemsReplies ==
    { m \in SeqsUpTo(ModemPaths, Cardinality(ModemPaths)) :
        \A i, j \in 1..Len(m) : i # j => m[i] # m[j] }

(* ------------------------------ AT input ------------------------------ *)
Line(cmd, gain) == [ cmd |-> cmd, gain |-> gain ]

\* the AT lines a headset sends: AT+VGS=<n>, AT+VGM=<n>, AT+CKPD=200, other
GainLines == { Line(c, g) : c \in {"VGS", "VGM"}, g \in ATGains }

ButtonLines == { Line("CKPD", 0), Line("OTHER", 0) }

Lines == GainLines \cup ButtonLines

\* what one read() leaves in buf, as the sequence of lines it holds
ChunksOf(L) == SeqsUpTo(L, MaxLines) \ { << >> }

\* the integer of the last line of buf with command cmd, NoGain if none
last_reported(buf, cmd) ==
    LET at == { i \in 1..Len(buf) : buf[i].cmd = cmd }
    IN  IF at = {} THEN NoGain
        ELSE buf[CHOOSE i \in at : \A j \in at : j <= i].gain

\* sscanf / pa_startswith look at the start of buf only
at_decode(buf) == IF buf = << >> THEN Line("OTHER", 0) ELSE buf[1]

(* ----------------------------- audio bearer --------------------------- *)
\* no audio-bearer callback has run
NoSco ==
    [ call |-> "none", sys |-> << "-", "-", "-" >>, optional |-> FALSE,
      imtu_p |-> FALSE, omtu_p |-> FALSE, ret |-> 0, imtu |-> NoMtu,
      omtu |-> NoMtu, sock_open |-> FALSE, closes |-> 0,
      volume_control_acquire |-> 0, volume_control_release |-> 0 ]

\* bluez5_sco_acquire_cb with the errno test of connect() left out
bluez5_sco_acquire_cb_strict_connect(sys, optional, imtu_p, omtu_p) ==
    LET r == [NoSco EXCEPT !.call = "acquire", !.sys = sys, !.optional = optional,
                           !.imtu_p = imtu_p, !.omtu_p = omtu_p]
    IN  IF sys[1] = "fail"
        THEN [r EXCEPT !.ret = ScoError]
        ELSE IF sys[2] = "fail" \/ sys[3] # "0"
        THEN [r EXCEPT !.ret = ScoError, !.closes = 1]
        ELSE [r EXCEPT !.ret = ScoFd, !.sock_open = TRUE,
                       !.imtu = IF imtu_p THEN ScoMtu ELSE NoMtu,
                       !.omtu = IF omtu_p THEN ScoMtu ELSE NoMtu,
                       !.volume_control_acquire = 1]

\* bluez5_sco_acquire_cb: sys are the outcomes of its system calls, imtu_p
\* and omtu_p tell whether the caller passed a variable for the size
bluez5_sco_acquire_cb(sys, optional, imtu_p, omtu_p) ==
    LET r == [NoSco EXCEPT !.call = "acquire", !.sys = sys, !.optional = optional,
                           !.imtu_p = imtu_p, !.omtu_p = omtu_p]
    IN  IF sys[1] = "fail"
        THEN [r EXCEPT !.ret = ScoError]
        ELSE IF sys[2] = "fail"
        THEN [r EXCEPT !.ret = ScoError, !.closes = 1]
        ELSE IF sys[3] # "0" /\ ~(sys[3] = "EAGAIN" \/ sys[3] = "EINPROGRESS")
        THEN [r EXCEPT !.ret = ScoError, !.closes = 1]
        ELSE [r EXCEPT !.ret = ScoFd, !.sock_open = TRUE,
                       !.imtu = IF imtu_p THEN ScoMtu ELSE NoMtu,
                       !.omtu = IF omtu_p THEN ScoMtu ELSE NoMtu,
                       !.volume_control_acquire = 1]

\* bluez5_sco_release_cb: the device closes the socket
bluez5_sco_release_cb ==
    [NoSco EXCEPT !.call = "release", !.volume_control_release = 1]

(* ------------------------------ Init ---------------------------------- *)
Init ==
    /\ trfc = FALSE
    /\ rfcomm_io = FALSE
    /\ ring_time_event = FALSE
    /\ speaker_gain = 0
    /\ microphone_gain = 0
    /\ call_paths = << >>
    /\ active_calls = << >>
    /\ held_calls = << >>
    /\ incoming_call_path = NoPath
    /\ pending = << >>
    /\ aborted = FALSE
    /\ out = << >>
    /\ sent = << >>
    /\ actions = << >>
    /\ op = Op("pa_bluetooth_droid_backend_hsp_new", NoPath, "", 0, FALSE)
    /\ pre = Pre
    /\ sco = NoSco

\* write the helper record back to the backend fields
SetBackend(b) ==
    /\ ring_time_event' = b.ring_time_event
    /\ call_paths' = b.call_paths
    /\ active_calls' = b.active_calls
    /\ held_calls' = b.held_calls
    /\ incoming_call_path' = b.incoming_call_path
    /\ out' = b.out
    /\ aborted' = b.aborted

Quiet == out' = << >> /\ sent' = << >> /\ actions' = << >>

(* ------------------------------ sessions ------------------------------ *)
\* profile_new_connection: a headset connected; a malformed NewConnection
\* or an unknown device is answered with an error and changes nothing
NewConnection(valid) ==
    /\ ~aborted
    /\ ~trfc
    /\ op' = Op("profile_new_connection", NoPath, IF valid THEN "ok" ELSE "fail", 0, FALSE)
    /\ pre' = Pre
    /\ UNCHANGED sco
    /\ IF valid
       THEN /\ Len(pending) < MaxPending
            /\ trfc' = TRUE
            /\ rfcomm_io' = TRUE
            /\ ring_time_event' = FALSE
            /\ speaker_gain' = 0
            /\ microphone_gain' = 0
            /\ pending' = send_and_add_to_pending(pending, Req("GetModems"))
            /\ sent' = << Msg(<<"/">>, "GetModems") >>
            /\ out' = << >> /\ actions' = << >>
            /\ UNCHANGED << call_paths, active_calls, held_calls,
                            incoming_call_path, aborted >>
       ELSE /\ Quiet
            /\ UNCHANGED << trfc, rfcomm_io, ring_time_event, speaker_gain,
                            microphone_gain, call_paths, active_calls, held_calls,
                            incoming_call_path, pending, aborted >>

\* transport_destroy without the rfcomm_ring_stop call
transport_destroy_keeps_timer(b) ==
    [voicecall_clear_calls(b) EXCEPT !.trfc = FALSE]

\* transport_destroy
transport_destroy(b) ==
    [rfcomm_ring_stop(voicecall_clear_calls(b)) EXCEPT !.trfc = FALSE]

\* the session is gone: transport_destroy, then the transport is freed
Teardown ==
    LET b == transport_destroy(Backend)
    IN  /\ SetBackend(b)
        /\ trfc' = b.trfc
        /\ rfcomm_io' = FALSE
        /\ speaker_gain' = 0
        /\ microphone_gain' = 0
        /\ sent' = << >> /\ actions' = << >>
        /\ UNCHANGED pending

\* pa_bluetooth_transport_free called by the owner of the transport
TransportFree ==
    /\ ~aborted
    /\ trfc
    /\ op' = Op("transport_destroy", NoPath, "", 0, FALSE)
    /\ pre' = Pre
    /\ UNCHANGED sco
    /\ Teardown

(* --------------------------- control channel -------------------------- *)
\* rfcomm_io_callback with PA_IO_EVENT_HANGUP or PA_IO_EVENT_ERROR set,
\* with or without PA_IO_EVENT_INPUT
RfcommHangup(event, input) ==
    /\ ~aborted
    /\ rfcomm_io
    /\ op' = Op("rfcomm_io_callback", NoPath, event, 0, input)
    /\ pre' = Pre
    /\ UNCHANGED sco
    /\ Teardown

\* rfcomm_io_callback with PA_IO_EVENT_INPUT only: buf is what read() left
\* in the buffer; kind is "data" (len > 0), "eof" (len = 0) or "error"
\* (len < 0: buf[len] = 0 lands outside buf and buf keeps what the stack held)
RfcommInput(kind, buf) ==
    /\ ~aborted
    /\ rfcomm_io
    /\ pre' = Pre
    /\ UNCHANGED sco
    /\ LET l == at_decode(buf)
           button == IF l.cmd = "CKPD" THEN rfcomm_handle_button(Backend) ELSE << >>
       IN  /\ op' = [ Op("rfcomm_io_callback", NoPath, kind,
                          IF kind = "data" THEN Len(buf) ELSE 0, TRUE)
                       EXCEPT !.cmds = << l.cmd >>,
                              !.vgs = last_reported(buf, "VGS"),
                              !.vgm = last_reported(buf, "VGM") ]
           /\ speaker_gain' = IF l.cmd = "VGS" THEN l.gain % UInt16 ELSE speaker_gain
           /\ microphone_gain' = IF l.cmd = "VGM" THEN l.gain % UInt16 ELSE microphone_gain
           /\ actions' = button
           /\ sent' = MessagesOf(button)
           /\ out' = << "OK" >>
    /\ UNCHANGED << trfc, rfcomm_io, ring_time_event, call_paths, active_calls,
                    held_calls, incoming_call_path, pending, aborted >>

\* set_speaker_gain
SetSpeakerGain(gain) ==
    /\ ~aborted
    /\ trfc
    /\ op' = Op("set_speaker_gain", NoPath, "", gain, FALSE)
    /\ pre' = Pre
    /\ UNCHANGED sco
    /\ IF speaker_gain = gain
       THEN out' = << >> /\ UNCHANGED speaker_gain
       ELSE speaker_gain' = gain /\ out' = << "+VGS" >>
    /\ sent' = << >> /\ actions' = << >>
    /\ UNCHANGED << trfc, rfcomm_io, ring_time_event, microphone_gain, call_paths,
                    active_calls, held_calls, incoming_call_path, pending, aborted >>

\* set_microphone_gain
SetMicrophoneGain(gain) ==
    /\ ~aborted
    /\ trfc
    /\ op' = Op("set_microphone_gain", NoPath, "", gain, FALSE)
    /\ pre' = Pre
    /\ UNCHANGED sco
    /\ IF microphone_gain = gain
       THEN out' = << >> /\ UNCHANGED microphone_gain
       ELSE microphone_gain' = gain /\ out' = << "+VGM" >>
    /\ sent' = << >> /\ actions' = << >>
    /\ UNCHANGED << trfc, rfcomm_io, ring_time_event, speaker_gain, call_paths,
                    active_calls, held_calls, incoming_call_path, pending, aborted >>

\* ring_time_cb without pa_core_rttime_restart: the timer fires once
RingTimeCb_one_shot ==
    /\ ~aborted
    /\ ring_time_event
    /\ op' = Op("ring_time_cb", NoPath, "", 0, FALSE)
    /\ pre' = Pre
    /\ UNCHANGED sco
    /\ out' = rfcomm_ring(Backend).out
    /\ ring_time_event' = FALSE
    /\ sent' = << >> /\ actions' = << >>
    /\ UNCHANGED << trfc, rfcomm_io, speaker_gain, microphone_gain,
                    call_paths, active_calls, held_calls, incoming_call_path,
                    pending, aborted >>

\* ring_time_cb: the armed timer fired
RingTimeCb ==
    /\ ~aborted
    /\ ring_time_event
    /\ op' = Op("ring_time_cb", NoPath, "", 0, FALSE)
    /\ pre' = Pre
    /\ UNCHANGED sco
    /\ out' = rfcomm_ring(Backend).out
    /\ sent' = << >> /\ actions' = << >>
    /\ UNCHANGED << trfc, rfcomm_io, ring_time_event, speaker_gain, microphone_gain,
                    call_paths, active_calls, held_calls, incoming_call_path,
                    pending, aborted >>

(* ------------------------- enumeration replies ------------------------ *)
\* get_modems_reply for the pending request at position i; a list of modems
\* is a well-formed reply, "error" a bus error, "malformed" a wrong signature
GetModemsReply(i, kind, modems) ==
    /\ ~aborted
    /\ i \in 1..Len(pending)
    /\ pending[i].kind = "GetModems"
    /\ Len(pending) - 1 + Len(modems) <= MaxPending
    /\ op' = [ Op("get_modems_reply", NoPath, kind, Len(modems), FALSE)
                EXCEPT !.paths = modems ]
    /\ pre' = Pre
    /\ UNCHANGED sco
    /\ pending' = llist_remove(voicecall_get_calls(pending, modems), i + Len(modems))
    /\ sent' = [ k \in 1..Len(modems) |-> Msg(modems[k], "GetCalls") ]
    /\ out' = << >> /\ actions' = << >>
    /\ UNCHANGED << trfc, rfcomm_io, ring_time_event, speaker_gain, microphone_gain,
                    call_paths, active_calls, held_calls, incoming_call_path, aborted >>

\* get_calls_reply dropping every pending request when the reply fails the
\* signature test
GetCallsReply_abandons_all(i, kind, entries) ==
    /\ ~aborted
    /\ i \in 1..Len(pending)
    /\ pending[i].kind = "GetCalls"
    /\ op' = [ Op("get_calls_reply", NoPath, kind, Len(entries),
                   \E k \in 1..Len(entries) : entries[k].state \in {"incoming", "waiting"})
                EXCEPT !.paths = [ k \in 1..Len(entries) |-> entries[k].path ] ]
    /\ pre' = Pre
    /\ UNCHANGED sco
    /\ LET b == parse_calls(Backend, entries)
       IN  /\ SetBackend(b)
           /\ pending' = IF b.aborted THEN pending
                          ELSE IF kind = "malformed" THEN << >>
                          ELSE llist_remove(pending, i)
    /\ sent' = << >> /\ actions' = << >>
    /\ UNCHANGED << trfc, rfcomm_io, speaker_gain, microphone_gain >>

\* get_calls_reply for the pending request at position i; an error reply
\* fails the signature test like any other malformed reply
GetCallsReply(i, kind, entries) ==
    /\ ~aborted
    /\ i \in 1..Len(pending)
    /\ pending[i].kind = "GetCalls"
    /\ op' = [ Op("get_calls_reply", NoPath, kind, Len(entries),
                   \E k \in 1..Len(entries) : entries[k].state \in {"incoming", "waiting"})
                EXCEPT !.paths = [ k \in 1..Len(entries) |-> entries[k].path ] ]
    /\ pre' = Pre
    /\ UNCHANGED sco
    /\ LET b == parse_calls(Backend, entries)
       IN  /\ SetBackend(b)
           /\ pending' = IF b.aborted THEN pending ELSE llist_remove(pending, i)
    /\ sent' = << >> /\ actions' = << >>
    /\ UNCHANGED << trfc, rfcomm_io, speaker_gain, microphone_gain >>

(* ----------------------------- audio bearer --------------------------- *)
\* the transport's acquire callback, called while the transport exists
ScoAcquire(sys, optional, imtu_p, omtu_p) ==
    /\ ~aborted
    /\ trfc
    /\ op' = Op("bluez5_sco_acquire_cb", NoPath, sys[3], 0, optional)
    /\ pre' = Pre
    /\ sco' = bluez5_sco_acquire_cb(sys, optional, imtu_p, omtu_p)
    /\ Quiet
    /\ UNCHANGED << trfc, rfcomm_io, ring_time_event, speaker_gain, microphone_gain,
                    call_paths, active_calls, held_calls, incoming_call_path,
                    pending, aborted >>

\* the transport's release callback, called for an acquired transport
ScoRelease ==
    /\ ~aborted
    /\ trfc
    /\ sco.sock_open
    /\ op' = Op("bluez5_sco_release_cb", NoPath, "", 0, FALSE)
    /\ pre' = Pre
    /\ sco' = bluez5_sco_release_cb
    /\ Quiet
    /\ UNCHANGED << trfc, rfcomm_io, ring_time_event, speaker_gain, microphone_gain,
                    call_paths, active_calls, held_calls, incoming_call_path,
                    pending, aborted >>

(* ------------------------------ bus signals --------------------------- *)
\* filter_cb returns at once while there is no session, and does nothing
\* for a signal it has no branch for
FilterIgnored ==
    /\ Quiet
    /\ UNCHANGED << trfc, rfcomm_io, ring_time_event, speaker_gain, microphone_gain,
                    call_paths, active_calls, held_calls, incoming_call_path,
                    pending, aborted >>

FilterApply(b) ==
    /\ SetBackend(b)
    /\ sent' = << >> /\ actions' = << >>
    /\ UNCHANGED << trfc, rfcomm_io, speaker_gain, microphone_gain, pending >>

\* filter_cb: org.freedesktop.DBus NameOwnerChanged(name, old_owner, new_owner)
NameOwnerChanged(name, old_owner, new_owner) ==
    /\ ~aborted
    /\ op' = Op("NameOwnerChanged", NoPath, name, 0, old_owner)
    /\ pre' = Pre
    /\ UNCHANGED sco
    /\ IF trfc /\ name = "org.ofono" /\ old_owner
       THEN FilterApply(voicecall_clear_calls(Backend))
       ELSE FilterIgnored

\* PropertyChanged without the test of the property name
PropertyChanged_any_property(path, property, state) ==
    /\ ~aborted
    /\ op' = Op("PropertyChanged", path, IF property = "State" THEN state ELSE property,
                0, FALSE)
    /\ pre' = Pre
    /\ UNCHANGED sco
    /\ IF trfc
       THEN FilterApply(property_changed_state(Backend, path, state))
       ELSE FilterIgnored

\* filter_cb: org.ofono.VoiceCall PropertyChanged(property, value) on path
PropertyChanged(path, property, state) ==
    /\ ~aborted
    /\ op' = Op("PropertyChanged", path, IF property = "State" THEN state ELSE property,
                0, FALSE)
    /\ pre' = Pre
    /\ UNCHANGED sco
    /\ IF trfc /\ property = "State"
       THEN FilterApply(property_changed_state(Backend, path, state))
       ELSE FilterIgnored

\* CallAdded without the test of backend->trfc at the head of filter_cb
CallAdded_without_session_test(path, call_state) ==
    /\ ~aborted
    /\ op' = Op("CallAdded", path, call_state, 0, FALSE)
    /\ pre' = Pre
    /\ UNCHANGED sco
    /\ FilterApply(voicecall_parse_call(Backend, path, call_state))

\* filter_cb: org.ofono.VoiceCallManager CallAdded(path, properties)
CallAdded(path, call_state) ==
    /\ ~aborted
    /\ op' = Op("CallAdded", path, call_state, 0, FALSE)
    /\ pre' = Pre
    /\ UNCHANGED sco
    /\ IF trfc
       THEN FilterApply(voicecall_parse_call(Backend, path, call_state))
       ELSE FilterIgnored

(* ------------------------------- Next --------------------------------- *)
Next ==
    \/ \E valid \in BOOLEAN : NewConnection(valid)
    \/ TransportFree
    \/ \E event \in {"HANGUP", "ERROR"}, input \in BOOLEAN : RfcommHangup(event, input)
    \/ \E buf \in ChunksOf(ButtonLines) : RfcommInput("data", buf)
    \/ RfcommInput("eof", << >>)
    \/ \E buf \in SeqsUpTo(ButtonLines, 1) : RfcommInput("error", buf)
    \/ RingTimeCb
    \/ \E i \in 1..MaxPending, modems \in ModemsReplies : GetModemsReply(i, "ok", modems)
    \/ \E i \in 1..MaxPending, kind \in {"error", "malformed"} : GetModemsReply(i, kind, << >>)
    \/ \E i \in 1..MaxPending, entries \in CallsReplies : GetCallsReply(i, "ok", entries)
    \/ \E i \in 1..MaxPending : GetCallsReply(i, "malformed", << >>)
    \/ \E old_owner \in BOOLEAN, new_owner \in BOOLEAN :
            NameOwnerChanged("org.ofono", old_owner, new_owner)
    \/ \E path \in CallPaths, state \in TransitionStates :
            PropertyChanged(path, "State", state)
    \/ \E path \in CallPaths : PropertyChanged(path, "LineIdentification", "active")
    \/ \E path \in CallPaths, call_state \in ObserveStates : CallAdded(path, call_state)

\* The telephony specification: every callback, with a headset that sends
\* button presses and unrecognised lines.  The gain fields stay as
\* profile_new_connection left them; no callback of Next reads them.
Spec == Init /\ [][Next]_vars

\* The gain specification: the same session and control-channel callbacks
\* with a headset that also sends AT+VGS / AT+VGM and an audio path that
\* calls the gain setters, while the telephony service is absent (GetModems
\* fails, no signals), so that the call registry stays empty.
NextGain ==
    \/ NewConnection(TRUE)
    \/ TransportFree
    \/ \E event \in {"HANGUP", "ERROR"}, input \in BOOLEAN : RfcommHangup(event, input)
    \/ \E buf \in ChunksOf(Lines) : RfcommInput("data", buf)
    \/ RfcommInput("eof", << >>)
    \/ \E buf \in SeqsUpTo(Lines, 1) : RfcommInput("error", buf)
    \/ \E gain \in SetterGains : SetSpeakerGain(gain)
    \/ \E gain \in SetterGains : SetMicrophoneGain(gain)
    \/ \E i \in 1..MaxPending : GetModemsReply(i, "error", << >>)

SpecGain == Init /\ [][NextGain]_vars

\* The object-path specification: one session, the telephony service absent
\* at connection time, and calls announced by CallAdded under the paths of
\* ExamplePaths, put on hold, and answered or swapped by the button.
NextPath ==
    \/ NewConnection(TRUE)
    \/ TransportFree
    \/ \E buf \in ChunksOf(ButtonLines) : RfcommInput("data", buf)
    \/ \E i \in 1..MaxPending : GetModemsReply(i, "error", << >>)
    \/ \E path \in ExamplePaths, state \in {"active", "held"} :
            PropertyChanged(path, "State", state)
    \/ \E path \in ExamplePaths, call_state \in {"incoming", NoState} :
            CallAdded(path, call_state)

SpecPath == Init /\ [][NextPath]_vars

\* The telephony specification with the main loop's promise that an armed
\* timer event fires: ring_time_cb runs if it stays enabled.
SpecRing == Init /\ [][Next]_vars /\ WF_vars(RingTimeCb)

\* The audio-bearer specification: sessions come and go while the telephony
\* service is absent, and the audio path acquires and releases the bearer.
NextSco ==
    \/ NewConnection(TRUE)
    \/ TransportFree
    \/ \E i \in 1..MaxPending : GetModemsReply(i, "error", << >>)
    \/ \E sys \in ScoSyscalls, optional \in BOOLEAN, imtu_p \in BOOLEAN, omtu_p \in BOOLEAN :
            ScoAcquire(sys, optional, imtu_p, omtu_p)
    \/ ScoRelease

SpecSco == Init /\ [][NextSco]_vars

(* ============================ properties ============================== *)
InSet(h, k) == k \in RangeOf(h)

\* the last callback was rfcomm_io_callback reading input (no hangup, no error event)
InputRead == op.name = "rfcomm_io_callback" /\ op.arg \in {"data", "eof", "error"}

\* the last callback decoded AT+CKPD=200 and ran rfcomm_handle_button
ButtonHandled == InputRead /\ op.cmds = << "CKPD" >>

\* the last callback was rfcomm_io_callback with a hangup or error event
HangupHandled == op.name = "rfcomm_io_callback" /\ op.arg \in {"HANGUP", "ERROR"}

\* C1: after any sequence of CallAdded signals, GetCalls replies and
\* PropertyChanged(State) signals, no call is in both active_calls and
\* held_calls.
C1_ActiveHeldDisjoint ==
    RangeOf(active_calls) \cap RangeOf(held_calls) = {}

\* C2: in every reachable state, a set incoming_call_path names a call that
\* is in call_paths and in neither active_calls nor held_calls.
C2_IncomingKnownNotActiveNotHeld ==
    incoming_call_path # NoPath =>
        /\ InSet(call_paths, incoming_call_path)
        /\ ~InSet(active_calls, incoming_call_path)
        /\ ~InSet(held_calls, incoming_call_path)

\* C3: a GetModems or GetCalls reply that arrives when the session that
\* issued it has been torn down does not run its continuation: it sends no
\* GetCalls request and leaves the call registry as it was.
C3_LateRepliesDiscarded ==
    [][ (op'.name \in {"get_modems_reply", "get_calls_reply"} /\ ~trfc) =>
            /\ sent' = << >>
            /\ UNCHANGED << call_paths, active_calls, held_calls, incoming_call_path >>
      ]_vars

\* C4: a PropertyChanged(State = disconnected) for call id leaves id absent
\* from call_paths, active_calls and held_calls, leaves incoming_call_path
\* unset if it named id, and changes no other call's membership.
C4_DisconnectedRemoves ==
    [][ \A id \in CallPaths :
          (trfc /\ op'.name = "PropertyChanged" /\ op'.arg = "disconnected" /\ op'.path = id) =>
              /\ ~InSet(call_paths', id)
              /\ ~InSet(active_calls', id)
              /\ ~InSet(held_calls', id)
              /\ (incoming_call_path = id => incoming_call_path' = NoPath)
              /\ \A o \in CallPaths \ {id} :
                    /\ InSet(call_paths', o) <=> InSet(call_paths, o)
                    /\ InSet(active_calls', o) <=> InSet(active_calls, o)
                    /\ InSet(held_calls', o) <=> InSet(held_calls, o)
      ]_vars

\* a disconnect of the incoming call was handled while another call is active
C4_Witness ==
    /\ op.name = "PropertyChanged" /\ op.arg = "disconnected"
    /\ pre.trfc /\ pre.incoming = op.path
    /\ incoming_call_path = NoPath
    /\ active_calls # << >>
    /\ ~InSet(active_calls, op.path)

\* C5: a button press handled while an incoming call is set
\* issues Answer(incoming) exactly when active_calls is empty and
\* HoldAndAnswer(incoming) exactly when active_calls is not empty.
C5_AnswerIffNoActive ==
    (ButtonHandled /\ incoming_call_path # NoPath) =>
        /\ (actions = << Act("Answer", incoming_call_path) >>) <=> (active_calls = << >>)
        /\ (actions = << Act("HoldAndAnswer", incoming_call_path) >>) <=> (active_calls # << >>)

\* C6: a button press handled with no incoming call issues Hangup(last
\* active) then SwapCalls(last held) if both sets are non-empty, Hangup(last
\* active) alone if only active calls exist, Hangup(last held) alone if only
\* held calls exist, and nothing if both are empty; and a call that
\* (re-)enters active_calls becomes its last element.
C6_ButtonWithoutIncoming ==
    /\ [] ( (ButtonHandled /\ incoming_call_path = NoPath) =>
              LET a == Len(active_calls)
                  h == Len(held_calls)
              IN  /\ (a > 0 /\ h > 0) =>
                        actions = << Act("Hangup", active_calls[a]),
                                     Act("SwapCalls", held_calls[h]) >>
                  /\ (a > 0 /\ h = 0) => actions = << Act("Hangup", active_calls[a]) >>
                  /\ (a = 0 /\ h > 0) => actions = << Act("Hangup", held_calls[h]) >>
                  /\ (a = 0 /\ h = 0) => actions = << >> )
    /\ [][ \A id \in CallPaths :
             (trfc /\ InSet(call_paths', id) /\ op'.path = id /\
                 ( (op'.name = "PropertyChanged" /\ op'.arg = "active")
                   \/ (op'.name = "CallAdded" /\ op'.arg \in {"held", NoState}) )) =>
                 /\ active_calls' # << >>
                 /\ active_calls'[Len(active_calls')] = id
         ]_vars

\* a button press with one call active and another call held
C6_Witness ==
    /\ ButtonHandled
    /\ incoming_call_path = NoPath
    /\ Len(active_calls) = 1
    /\ Len(held_calls) = 1
    /\ active_calls[1] # held_calls[1]
    /\ actions = << Act("Hangup", active_calls[1]), Act("SwapCalls", held_calls[1]) >>

\* C7: every AT line read from a live control channel is dispatched and
\* acknowledged with one OK line, also when one read returns several lines.
C7_OneOkPerLine ==
    (op.name = "rfcomm_io_callback" /\ op.arg = "data") =>
        /\ out = [ k \in 1..op.n |-> "OK" ]
        /\ Len(op.cmds) = op.n

\* C8: a zero-length read or a failed read tears the session down and is
\* neither decoded as a command nor acknowledged.
C8_BadReadTearsDown ==
    (op.name = "rfcomm_io_callback" /\ op.arg \in {"eof", "error"}) =>
        /\ ~trfc
        /\ ~rfcomm_io
        /\ out = << >>
        /\ actions = << >>

\* C9: a hangup or error event destroys the session: nothing is decoded or
\* acknowledged in that callback even if input was flagged, the I/O
\* registration and the ring timer are gone, backend->trfc is NULL, and
\* while no session exists no callback writes a line.
C9_HangupDestroysSession ==
    /\ HangupHandled =>
          /\ ~trfc /\ ~rfcomm_io /\ ~ring_time_event
          /\ op.cmds = << >> /\ out = << >> /\ actions = << >> /\ sent = << >>
    /\ ~trfc => (~rfcomm_io /\ ~ring_time_event /\ out = << >>)

\* a hangup flagged together with input ended a session that was ringing
C9_Witness ==
    /\ HangupHandled
    /\ op.flag
    /\ pre.trfc /\ pre.ring
    /\ ~trfc

\* C10: every PropertyChanged(State), whatever the call and the state value,
\* leaves the ring timer disarmed; the timer is armed again only by a
\* CallAdded or GetCalls reply that carries an incoming or waiting call.
C10_StateChangeStopsRing ==
    [][ /\ (op'.name = "PropertyChanged" /\ op'.arg \in TransitionStates) => ~ring_time_event'
        /\ (~ring_time_event /\ ring_time_event') =>
              \/ op'.name = "CallAdded" /\ op'.arg \in {"incoming", "waiting"}
              \/ op'.name = "get_calls_reply" /\ op'.flag
      ]_vars

\* ringing was stopped by a state change to an unrecognised state of a call
\* that is not known
C10_Witness ==
    /\ op.name = "PropertyChanged" /\ op.arg = "alerting"
    /\ ~InSet(call_paths, op.path)
    /\ pre.ring
    /\ ~ring_time_event

\* the last callback was a CallAdded signal handled by a session
CallObserved == op.name = "CallAdded" /\ pre.trfc

\* C11: a CallAdded with state incoming or waiting that finds an incoming
\* call already set leaves incoming_call_path as it was.
C11_IncomingKeptIfSet ==
    (CallObserved /\ op.arg \in {"incoming", "waiting"} /\ pre.incoming # NoPath) =>
        incoming_call_path = pre.incoming

\* C12: a CallAdded (or a one-entry GetCalls reply) with state incoming or
\* waiting, handled by a session, leaves the ring timer armed, with RING
\* written unless it was armed already, when the call is then the only one
\* in call_paths; when another call is known it writes nothing and leaves
\* the timer as it was.
C12_RingIffOnlyCall ==
    [][ ( /\ trfc
          /\ \/ op'.name = "CallAdded" /\ op'.arg \in {"incoming", "waiting"}
             \/ op'.name = "get_calls_reply" /\ op'.n = 1 /\ op'.flag ) =>
            IF Len(call_paths') = 1
            THEN /\ ring_time_event'
                 /\ out' = IF ring_time_event THEN << >> ELSE << "RING" >>
            ELSE /\ ring_time_event' = ring_time_event
                 /\ out' = << >>
      ]_vars

\* a waiting call was added next to a known call and nothing rang
C12_Witness ==
    /\ CallObserved /\ op.arg = "waiting"
    /\ Len(call_paths) = 2
    /\ incoming_call_path = op.path
    /\ ~pre.ring /\ ~ring_time_event
    /\ out = << >>

\* C13: a CallAdded with a state that is not incoming or waiting (a missing
\* State included) leaves the call in call_paths, last in active_calls, and
\* absent from held_calls.
C13_ObservedBecomesActive ==
    (CallObserved /\ op.arg \in {"held", NoState}) =>
        /\ InSet(call_paths, op.path)
        /\ pa_hashmap_last(active_calls) = op.path
        /\ ~InSet(held_calls, op.path)

\* the last callback observed an incoming or waiting call
RingStarter ==
    \/ op.name = "CallAdded" /\ op.arg \in {"incoming", "waiting"}
    \/ op.name = "get_calls_reply" /\ op.flag

\* C14: rfcomm_ring_start called twice in a row writes RING once if the
\* timer was not armed and not at all if it was, and leaves the timer armed;
\* a CallAdded that calls rfcomm_ring_start while the timer is armed writes
\* nothing and leaves it armed.
C14_RingStartOnce ==
    /\ [] ( trfc =>
              LET b1 == rfcomm_ring_start(Backend)
                  b2 == rfcomm_ring_start(b1)
              IN  /\ b1.out = IF ring_time_event THEN << >> ELSE << "RING" >>
                  /\ b2.out = b1.out
                  /\ b1.ring_time_event /\ b2.ring_time_event
                  /\ ~b2.aborted )
    /\ [][ ( /\ trfc /\ ring_time_event
             /\ op'.name = "CallAdded" /\ op'.arg \in {"incoming", "waiting"}
             /\ Len(call_paths') = 1 ) =>
               (ring_time_event' /\ out' = << >> /\ ~aborted')
         ]_vars

\* an incoming call became the only known call while the timer was armed
C14_Witness ==
    /\ CallObserved /\ op.arg \in {"incoming", "waiting"}
    /\ pre.ring
    /\ call_paths = << op.path >>
    /\ ring_time_event
    /\ out = << >>

\* C15: rfcomm_ring_stop leaves the timer disarmed and writes nothing; with
\* the timer not armed it changes nothing, so a second call changes nothing.
\* A State change to a value with no branch, which only calls
\* rfcomm_ring_stop, disarms the timer and changes nothing else.
C15_RingStopIdempotent ==
    /\ [] ( trfc =>
              LET b1 == rfcomm_ring_stop(Backend)
              IN  /\ ~b1.ring_time_event
                  /\ b1.out = << >>
                  /\ b1 = [Backend EXCEPT !.ring_time_event = FALSE]
                  /\ rfcomm_ring_stop(b1) = b1 )
    /\ [][ (trfc /\ op'.name = "PropertyChanged" /\ op'.arg = "alerting") =>
              /\ ~ring_time_event'
              /\ out' = << >>
              /\ UNCHANGED << trfc, rfcomm_io, speaker_gain, microphone_gain,
                              call_paths, active_calls, held_calls,
                              incoming_call_path, pending, aborted >>
         ]_vars

\* rfcomm_ring_stop ran with the timer not armed
C15_Witness ==
    /\ op.name = "PropertyChanged" /\ op.arg = "alerting"
    /\ pre.trfc /\ ~pre.ring
    /\ ~ring_time_event
    /\ call_paths # << >>
    /\ ~aborted

\* C16: ring_time_cb runs only while the timer is armed, writes one RING and
\* leaves the timer armed; RING is written while the timer is not armed only
\* by a callback that starts ringing, and with the timer armed only by
\* ring_time_cb; and while the timer stays armed ring_time_cb runs again
\* and again.
C16_RingResent ==
    /\ [][ /\ op'.name = "ring_time_cb" =>
                (ring_time_event /\ ring_time_event' /\ out' = << "RING" >>)
           /\ "RING" \in RangeOf(out') =>
                /\ ring_time_event'
                /\ ring_time_event => op'.name = "ring_time_cb"
                /\ ~ring_time_event => (RingStarter' /\ out' = << "RING" >>)
         ]_vars
    /\ []<>(~ring_time_event \/ (op.name = "ring_time_cb" /\ out = << "RING" >>))

\* the timer fired, RING was written and the timer is still armed
C16_Witness ==
    /\ op.name = "ring_time_cb"
    /\ pre.ring /\ ring_time_event
    /\ out = << "RING" >>
    /\ incoming_call_path # NoPath

\* C17: a NameOwnerChanged for org.ofono with a non-empty old owner, handled
\* by a session, leaves call_paths, active_calls and held_calls empty and
\* incoming_call_path unset.
C17_ServiceGoneClearsCalls ==
    (op.name = "NameOwnerChanged" /\ op.arg = "org.ofono" /\ op.flag /\ pre.trfc) =>
        /\ call_paths = << >>
        /\ active_calls = << >>
        /\ held_calls = << >>
        /\ incoming_call_path = NoPath

\* the service disappeared while an incoming call was set
C17_Witness ==
    /\ op.name = "NameOwnerChanged" /\ op.arg = "org.ofono" /\ op.flag
    /\ pre.trfc /\ pre.incoming # NoPath
    /\ call_paths = << >>
    /\ incoming_call_path = NoPath

\* C18: a gain setter called with the stored value writes nothing and
\* changes nothing, and otherwise stores the value and writes one line; so
\* a setter called again with the same value, or called with the value the
\* headset last reported in AT+VGS / AT+VGM, writes nothing.
C18_GainSetterDedup ==
    [][ /\ op'.name = "set_speaker_gain" =>
              /\ IF speaker_gain = op'.n
                 THEN out' = << >> /\ speaker_gain' = speaker_gain
                 ELSE out' = << "+VGS" >> /\ speaker_gain' = op'.n
              /\ UNCHANGED << trfc, rfcomm_io, ring_time_event, microphone_gain,
                              pending, aborted >>
        /\ op'.name = "set_microphone_gain" =>
              /\ IF microphone_gain = op'.n
                 THEN out' = << >> /\ microphone_gain' = microphone_gain
                 ELSE out' = << "+VGM" >> /\ microphone_gain' = op'.n
              /\ UNCHANGED << trfc, rfcomm_io, ring_time_event, speaker_gain,
                              pending, aborted >>
        /\ \A name \in {"set_speaker_gain", "set_microphone_gain"} :
              (op.name = name /\ op'.name = name /\ op'.n = op.n) => out' = << >>
        /\ (InputRead /\ op'.name = "set_speaker_gain" /\ op'.n = op.vgs) =>
              out' = << >>
        /\ (InputRead /\ op'.name = "set_microphone_gain" /\ op'.n = op.vgm) =>
              out' = << >>
      ]_vars

\* C19: the stored speaker gain and microphone gain are always within 0..15.
C19_GainsInRange ==
    /\ speaker_gain \in 0..15
    /\ microphone_gain \in 0..15

\* /org/ofono/modem0
OfonoModemPath == SubSeq(OfonoCallPath, 1, 17)

\* the modem that owns a call object: the path of the call without its last
\* element; none for a path with a single element
OwningModem(p) ==
    LET seps == { i \in 1..Len(p) : p[i] = "/" }
    IN  IF Cardinality(seps) < 2 THEN NoPath
        ELSE SubSeq(p, 1, (CHOOSE i \in seps : \A j \in seps : j <= i) - 1)

\* C20: the HoldAndAnswer or SwapCalls of a button press goes to the modem
\* that owns the call, /org/ofono/modem0 for /org/ofono/modem0/voicecall01,
\* and nothing is sent for a call path with no second separator (/badpath).
C20_ModemOwnerExtraction ==
    /\ OwningModem(OfonoCallPath) = OfonoModemPath
    /\ OwningModem(BadPath) = NoPath
    /\ ButtonHandled =>
          \A k \in 1..Len(actions) :
              actions[k].act \in {"HoldAndAnswer", "SwapCalls"} =>
                  IF OwningModem(actions[k].path) = NoPath
                  THEN \A i \in 1..Len(sent) : sent[i].member # actions[k].act
                  ELSE \E i \in 1..Len(sent) :
                          sent[i] = Msg(OwningModem(actions[k].path), actions[k].act)

\* the requests of pending with notify function kind
PendingOf(p, kind) == Cardinality({ i \in 1..Len(p) : p[i].kind = kind })

\* the registry fields
registry == << call_paths, active_calls, held_calls, incoming_call_path >>

\* C21: a GetModems reply that is an error or malformed sends no GetCalls
\* and leaves the registry unchanged; a well-formed one sends one GetCalls
\* per modem listed, to that modem, and adds as many requests; a malformed
\* GetCalls reply leaves the registry and the other requests unchanged; and
\* every call listed by a well-formed GetCalls reply whose handler returns
\* is in call_paths afterwards, whatever the other replies were.
C21_FailedReplyAbandonsItsBranch ==
    [][ /\ (op'.name = "get_modems_reply" /\ op'.arg \in {"error", "malformed"}) =>
              /\ sent' = << >>
              /\ UNCHANGED registry
              /\ PendingOf(pending', "GetCalls") = PendingOf(pending, "GetCalls")
        /\ (op'.name = "get_modems_reply" /\ op'.arg = "ok") =>
              /\ sent' = [ k \in 1..Len(op'.paths) |-> Msg(op'.paths[k], "GetCalls") ]
              /\ PendingOf(pending', "GetCalls") =
                    PendingOf(pending, "GetCalls") + Len(op'.paths)
              /\ UNCHANGED registry
        /\ (op'.name = "get_calls_reply" /\ op'.arg = "malformed") =>
              /\ UNCHANGED registry
              /\ sent' = << >>
              /\ PendingOf(pending', "GetCalls") = PendingOf(pending, "GetCalls") - 1
              /\ PendingOf(pending', "GetModems") = PendingOf(pending, "GetModems")
        /\ (op'.name = "get_calls_reply" /\ op'.arg = "ok" /\ ~aborted') =>
              /\ \A k \in 1..Len(op'.paths) : InSet(call_paths', op'.paths[k])
              /\ \A c \in CallPaths : InSet(call_paths, c) => InSet(call_paths', c)
      ]_vars

\* a GetCalls request was answered with a malformed reply while another
\* GetCalls request is outstanding and calls are known
C21_Witness ==
    /\ op.name = "get_calls_reply" /\ op.arg = "malformed"
    /\ pre.trfc /\ ~aborted
    /\ PendingOf(pending, "GetCalls") >= 1
    /\ call_paths # << >>

\* C22: the pending list changes only when a request is issued, which adds
\* that request, and when a reply handler returns, which removes the one
\* request it answers; so the list holds exactly the requests issued and
\* not yet answered, and is empty once every request has been answered.
C22_PendingUntilReply ==
    [][ LET gm == PendingOf(pending', "GetModems") - PendingOf(pending, "GetModems")
            gc == PendingOf(pending', "GetCalls") - PendingOf(pending, "GetCalls")
        IN  IF op'.name = "profile_new_connection" /\ op'.arg = "ok" /\ ~trfc
            THEN gm = 1 /\ gc = 0 /\ sent' = << Msg(<< "/" >>, "GetModems") >>
            ELSE IF op'.name = "get_modems_reply" /\ pending' # pending
            THEN gm = -1 /\ gc = Len(sent') /\ Len(sent') = op'.n
            ELSE IF op'.name = "get_calls_reply" /\ pending' # pending
            THEN gm = 0 /\ gc = -1 /\ ~aborted'
            ELSE pending' = pending
      ]_vars

\* the last outstanding request was answered and the list is empty
C22_Witness ==
    /\ op.name = "get_calls_reply"
    /\ ~aborted
    /\ pending = << >>
    /\ call_paths # << >>
    /\ trfc

\* C23: bluez5_sco_acquire_cb returns the descriptor, stores 48 through the
\* size pointers it was given and calls pa_droid_volume_control_acquire once
\* when connect() returned 0 or failed with EAGAIN or EINPROGRESS; when
\* socket(), bind() or connect() failed otherwise it returns -1, leaves no
\* descriptor open, stores no size and does not call the volume control.
C23_ScoAcquireOutcome ==
    (op.name = "bluez5_sco_acquire_cb") =>
        IF sco.sys[1] = "ok" /\ sco.sys[2] = "ok"
           /\ sco.sys[3] \in {"0", "EAGAIN", "EINPROGRESS"}
        THEN /\ sco.ret = ScoFd
             /\ sco.sock_open /\ sco.closes = 0
             /\ sco.imtu_p => sco.imtu = ScoMtu
             /\ sco.omtu_p => sco.omtu = ScoMtu
             /\ sco.volume_control_acquire = 1
        ELSE /\ sco.ret = ScoError
             /\ ~sco.sock_open
             /\ sco.closes = (IF sco.sys[1] = "ok" THEN 1 ELSE 0)
             /\ sco.imtu = NoMtu /\ sco.omtu = NoMtu
             /\ sco.volume_control_acquire = 0

\* C23 witness: connect() is in progress and the bearer is acquired with
\* both sizes stored
C23_Witness ==
    /\ op.name = "bluez5_sco_acquire_cb"
    /\ sco.sys = << "ok", "ok", "EINPROGRESS" >>
    /\ sco.ret = ScoFd
    /\ sco.imtu = ScoMtu /\ sco.omtu = ScoMtu
    /\ sco.volume_control_acquire = 1

\* C24: the pa_assert(trfc) of rfcomm_ring_start never fails: an incoming or
\* waiting call that is the only known call is observed only while
\* backend->trfc is set.
C24_RingAssertHolds == ~aborted

\* C25: the ring timer is armed only while an incoming call is set.
C25_RingingHasIncoming == ring_time_event => incoming_call_path # NoPath

\* C26: active_calls and held_calls hold only calls of call_paths; a
\* PropertyChanged for a path that is not in call_paths adds it to none of
\* the three maps, and a path that leaves call_paths is in neither
\* active_calls nor held_calls after the same step.
C26_ActiveHeldKnown ==
    /\ [](/\ RangeOf(active_calls) \subseteq RangeOf(call_paths)
          /\ RangeOf(held_calls) \subseteq RangeOf(call_paths))
    /\ [][ /\ (op'.name = "PropertyChanged" /\ op'.path \notin RangeOf(call_paths)) =>
                  /\ call_paths' = call_paths
                  /\ op'.path \notin RangeOf(active_calls') \cup RangeOf(held_calls')
           /\ \A k \in RangeOf(call_paths) \ RangeOf(call_paths') :
                  k \notin RangeOf(active_calls') \cup RangeOf(held_calls')
         ]_vars

\* C26 witness: a session handled State=active or State=held for a path it
\* does not know while it knows another call
C26_Witness ==
    /\ op.name = "PropertyChanged" /\ op.arg \in {"active", "held"}
    /\ pre.trfc
    /\ op.path \notin RangeOf(call_paths)
    /\ call_paths # << >>

\* C27: a CallAdded, PropertyChanged or NameOwnerChanged signal that arrives
\* while backend->trfc is NULL changes neither the call registry nor the
\* pending requests nor the ring timer, and nothing is written or sent.
C27_SignalsIgnoredWithoutSession ==
    [][ (~trfc /\ op'.name \in {"CallAdded", "PropertyChanged", "NameOwnerChanged"}) =>
            /\ UNCHANGED << registry, pending, ring_time_event, aborted >>
            /\ out' = << >> /\ sent' = << >>
      ]_vars

\* C27 witness: CallAdded arrived after the session was torn down with an
\* enumeration request still pending
C27_Witness ==
    /\ op.name = "CallAdded" /\ op.arg = "incoming"
    /\ ~pre.trfc
    /\ pending # << >>

\* C28: a PropertyChanged signal for a property other than State changes no
\* part of the call registry and leaves the ring timer as it was.
C28_OtherPropertyIgnored ==
    [][ (op'.name = "PropertyChanged" /\ op'.arg = "LineIdentification") =>
            /\ UNCHANGED << registry, ring_time_event >>
            /\ out' = << >>
      ]_vars

\* C28 witness: the ringing call's LineIdentification changed and the
\* session still rings
C28_Witness ==
    /\ op.name = "PropertyChanged" /\ op.arg = "LineIdentification"
    /\ pre.trfc /\ pre.ring
    /\ op.path = incoming_call_path
    /\ ring_time_event

====
